---- MODULE Spec2Model ----
(***************************************************************************)
(* WS-SWS: an Express service (src/index.js) over three MySQL tables       *)
(* (schema in the README, src/unnamed/part_000): users, sessions and       *)
(* emargement (attendance).  The README names the first two tables         *)
(* utilisateur and session; the handlers query users and sessions.  The    *)
(* model gives the tables the handlers query the columns, keys and         *)
(* constraints the README declares.                                        *)
(*                                                                         *)
(* Every handler issues a single SQL statement, so a handler is one atomic *)
(* step, except signup, which awaits bcrypt.hash before its INSERT: the    *)
(* requests that are between the two are kept in pending.                  *)
(***************************************************************************)
EXTENDS Integers, FiniteSets, Sequences, TLC

\* ------------------------------------------------------------------ bounds
MaxUserId == 2      \* AUTO_INCREMENT of users stops here
MaxSessionId == 1   \* AUTO_INCREMENT of sessions stops here
MaxEmargId == 2     \* AUTO_INCREMENT of emargement stops here
MaxTime == 2        \* the clock stops here (hours)
MaxTokens == 1      \* tokens the clients keep
MaxPending == 2     \* signups in flight

\* expiresIn: "1h", in hours
ExpiresIn == 1
\* bcrypt.hash(password, 10)
SaltRounds == 10
\* z.string().min(6)
MinPasswordLen == 6

\* ------------------------------------------------------------------ values
Undefined == "undefined"          \* a field the JSON body does not carry
JWT_SECRET == "JWT_SECRET"        \* process.env.JWT_SECRET
Formateur == "formateur"
Etudiant == "etudiant"
Roles == {Formateur, Etudiant}

\* e-mail addresses as local part and domain
Email(l, d) == [local |-> l, domain |-> d]
MailA == Email("a", "x.fr")
MailB == Email("b", "x.fr")
NoMail == Email(Undefined, Undefined)

\* passwords as sequences of characters
PwGood == <<"s", "e", "c", "r", "e", "t">>
PwOther == <<"w", "r", "o", "n", "g", "9", "9">>
PwShort == <<"a", "b", "c">>
PwUndefined == <<Undefined>>

\* dates as the client writes them: a calendar day and an optional time of day
DateStr(d, t) == [kind |-> "date", day |-> d, time |-> t]
BadDate == [kind |-> "bad", day |-> 0, time |-> ""]
NoDate == [kind |-> Undefined, day |-> 0, time |-> ""]

\* ------------------------------------------------------------------ state
VARIABLES
    users,          \* rows of table users
    sessions,       \* rows of table sessions
    emargement,     \* rows of table emargement
    nextUserId,     \* AUTO_INCREMENT counters
    nextSessionId,
    nextEmargId,
    now,            \* the clock jsonwebtoken reads
    tokens,         \* tokens login has issued and clients still hold
    pending,        \* signups that passed validation, INSERT not yet run
    signedUp,       \* history: the credentials of every signup answered 201
    posted,         \* history: what POST /sessions was given for the rows it
                    \* created that no update or delete has touched since
    req,            \* what the handler read of the request answered last
    res             \* its response

vars == <<users, sessions, emargement, nextUserId, nextSessionId, nextEmargId,
          now, tokens, pending, signedUp, posted, req, res>>

store == <<users, sessions, emargement>>

counters == <<nextUserId, nextSessionId, nextEmargId>>

\* ------------------------------------------------------------------ userSchema
ValidName(name) == name # Undefined /\ name # ""

ValidEmail(email) == email.local \notin {Undefined, ""} /\ email.domain \notin {Undefined, ""}

ValidPassword(password) == password # PwUndefined /\ Len(password) >= MinPasswordLen

ValidRole(role) == role \in {"formateur", "etudiant"}

userSchemaOk(body) ==
    /\ ValidName(body.name)
    /\ ValidEmail(body.email)
    /\ ValidPassword(body.password)
    /\ ValidRole(body.role)

\* ------------------------------------------------------------------ bcrypt
\* A hash is not the password: it is decided only through compare.
bcryptHash(password, rounds) == [alg |-> "bcrypt", cost |-> rounds, of |-> password]

bcryptThrows(password) == password = PwUndefined

bcryptCompareAlwaysTrue(password, hash) == TRUE

bcryptCompare(password, hash) == hash.alg = "bcrypt" /\ hash.of = password

\* ------------------------------------------------------------------ jsonwebtoken
jwtSign(payload, secret, t) ==
    [kind |-> "jwt", id |-> payload.id, role |-> payload.role,
     iat |-> t, exp |-> t + ExpiresIn, key |-> secret]

Garbage == [kind |-> "garbage", id |-> 0, role |-> "", iat |-> 0, exp |-> 0, key |-> ""]
NoToken == [kind |-> Undefined, id |-> 0, role |-> "", iat |-> 0, exp |-> 0, key |-> ""]

jwtVerifyNoExpiry(token, secret, t) == token.kind = "jwt" /\ token.key = secret

\* err = null in the callback of jwt.verify
jwtVerify(token, secret, t) ==
    /\ token.kind = "jwt"
    /\ token.key = secret
    /\ t < token.exp

\* req.headers.authorization?.split(" ")[1]; a header is a sequence of words
NoHeader == <<>>
ExtractToken(header) == IF Len(header) >= 2 THEN header[2] ELSE NoToken

Response(route, status, body) == [route |-> route, status |-> status, body |-> body]

\* the bodies res.send and res.json are given: a text, {token}, a row, or rows
NoRow == [id |-> 0, title |-> Undefined, date |-> NoDate, formateur_id |-> 0]
Body(text, token, row, rows, records) ==
    [text |-> text, token |-> token, row |-> row, rows |-> rows, records |-> records]
Text(text) == Body(text, NoToken, NoRow, {}, {})
TokenBody(token) == Body("", token, NoRow, {}, {})
RowBody(row) == Body("", NoToken, row, {}, {})
RowsBody(rows) == Body("", NoToken, NoRow, rows, {})
RecordsBody(records) == Body("", NoToken, NoRow, {}, records)


\* ------------------------------------------------------------------ requests
Names == {"Ana", ""}
Mails == {MailA, MailB, Email("a", "")}
SignupPasswords == {PwGood, PwShort}
SignupRoles == {Formateur, Etudiant, "admin"}

SignupBody(n, e, p, r) == [name |-> n, email |-> e, password |-> p, role |-> r]

InvalidFields(b) ==
    {f \in {"name", "email", "password", "role"} :
        \/ f = "name" /\ ~ValidName(b.name)
        \/ f = "email" /\ ~ValidEmail(b.email)
        \/ f = "password" /\ ~ValidPassword(b.password)
        \/ f = "role" /\ ~ValidRole(b.role)}

\* the valid bodies, and the bodies of MailA with one invalid field
SignupBodies ==
    {b \in {SignupBody(n, e, p, r) : n \in Names, e \in Mails,
                                     p \in SignupPasswords, r \in SignupRoles} :
        \/ InvalidFields(b) = {}
        \/ /\ Cardinality(InvalidFields(b)) = 1
           /\ b.email.local = "a"
           /\ b.role # Etudiant}

LoginMails == {MailA, MailB, NoMail}
LoginPasswords == {PwGood, PwOther, PwUndefined}
LoginBody(e, p) == [email |-> e, password |-> p]
LoginBodies == {LoginBody(e, p) : e \in LoginMails, p \in LoginPasswords}

SessionBody(title, date) == [title |-> title, date |-> date]
NoSessionBody == SessionBody(Undefined, NoDate)
SessionBodies ==
    {SessionBody(t, d) : t \in {"T1", "T2"}, d \in {DateStr(1, ""), DateStr(2, "10:30")}}
        \cup {SessionBody(Undefined, DateStr(1, "")), SessionBody("T1", BadDate),
              SessionBody("T1", NoDate)}

Statuses == {"true", "false", Undefined}
Ids == 1..(MaxSessionId + 1)

\* tokens signed with a key that is not JWT_SECRET
Forged == {jwtSign([id |-> 1, role |-> r], "other", now) : r \in {Formateur}}

Headers ==
    {NoHeader, <<"Bearer">>}
        \cup {<<"Bearer", t>> : t \in tokens \cup Forged \cup {Garbage}}
        \cup {<<"Token", t>> : t \in tokens}

\* ------------------------------------------------------------------ tables
UserRow(id, name, email, password, role) ==
    [id |-> id, name |-> name, email |-> email, password |-> password, role |-> role]

SessionRow(id, title, date, formateur_id) ==
    [id |-> id, title |-> title, date |-> date, formateur_id |-> formateur_id]

EmargementRow(id, session_id, etudiant_id, status) ==
    [id |-> id, session_id |-> session_id, etudiant_id |-> etudiant_id, status |-> status]

\* email VARCHAR(255) NOT NULL UNIQUE
NoUniqueEmail(rows, email) == TRUE

UniqueEmail(rows, email) == \A u \in rows : u.email # email

\* FOREIGN KEY (...) REFERENCES t(id): the referenced row exists
ForeignKey(rows, id) == \E r \in rows : r.id = id

\* a string a DATE column accepts
DateAccepted(date) == date.kind = "date"

\* what a DATE column keeps of it: the calendar day
ToDateShifted(date) == DateStr(date.day - 1, "")

ToDate(date) == DateStr(date.day, "")

\* status BOOLEAN (TINYINT(1)) NOT NULL
ToTinyInt(status) == IF status = "true" THEN 1 ELSE 0

\* ON DELETE CASCADE from sessions to emargement
NoCascade(rows, gone) == rows

CascadeSessions(rows, gone) == {e \in rows : e.session_id \notin {s.id : s \in gone}}

\* ON DELETE CASCADE from users to sessions and to emargement
CascadeUser(rows, id) == {e \in rows : e.etudiant_id # id}

OwnedSessions(rows, id) == {s \in rows : s.formateur_id = id}

\* ------------------------------------------------------------------ req
NoUser == [id |-> 0, role |-> Undefined]

\* the token of the authorization header, then req.user, req.params.id and the
\* fields of req.body, as far as the handler reads them
Request(token, user, id, title, date, status) ==
    [token |-> token, user |-> user, id |-> id, title |-> title, date |-> date,
     status |-> status]

NoRequest == Request(NoToken, NoUser, 0, Undefined, NoDate, Undefined)

\* ------------------------------------------------------------------ Init
Init ==
    /\ users = {}
    /\ sessions = {}
    /\ emargement = {}
    /\ nextUserId = 1
    /\ nextSessionId = 1
    /\ nextEmargId = 1
    /\ now = 0
    /\ tokens = {}
    /\ pending = {}
    /\ signedUp = {}
    /\ posted = {}
    /\ req = NoRequest
    /\ res = Response("none", 0, Text(""))

\* ------------------------------------------------------------------ authenticateJWT

authenticateJWT(header) ==
    LET token == ExtractToken(header) IN
    IF token.kind = Undefined
    THEN [ok |-> FALSE, status |-> 403, body |-> Text("Access Denied"), user |-> NoUser]
    ELSE IF ~jwtVerify(token, JWT_SECRET, now)
    THEN [ok |-> FALSE, status |-> 403, body |-> Text("Invalid Token"), user |-> NoUser]
    ELSE [ok |-> TRUE, status |-> 0, body |-> Text(""),
          user |-> [id |-> token.id, role |-> token.role]]

\* the role test every protected handler starts with
RoleAnyone(user, role) == TRUE

RoleAllowed(user, role) == user.role = role

\* the request reaches the handler's statement
Passes(header, role) ==
    authenticateJWT(header).ok /\ RoleAllowed(authenticateJWT(header).user, role)

\* the answer of a request the guard or the role test stopped: no statement is run
Rejected(route, header, user, status, body) ==
    /\ req' = Request(ExtractToken(header), user, 0, Undefined, NoDate, Undefined)
    /\ res' = Response(route, status, body)
    /\ UNCHANGED <<store, counters, now, tokens, pending, signedUp, posted>>

\* ------------------------------------------------------------------ POST /auth/signup
\* userSchema.parse and bcrypt.hash; the INSERT is a later step
SignupParse(body) ==
    IF ~userSchemaOk(body)
    THEN /\ res' = Response("POST /auth/signup", 400, Text("ZodError"))
         /\ req' = NoRequest
         /\ UNCHANGED <<store, counters, now, tokens, pending, signedUp, posted>>
    ELSE LET p == [body |-> body, hashedPassword |-> bcryptHash(body.password, SaltRounds)] IN
         /\ p \notin pending
         /\ Cardinality(pending) < MaxPending
         /\ pending' = pending \cup {p}
         /\ UNCHANGED <<store, counters, now, tokens, signedUp, posted, req, res>>

\* INSERT INTO users (name, email, password, role) and the answer
InsertUser(body, hashedPassword) ==
    /\ req' = NoRequest
    /\ IF UniqueEmail(users, body.email)
       THEN /\ nextUserId <= MaxUserId
            /\ users' = users \cup {UserRow(nextUserId, body.name, body.email,
                                            hashedPassword, body.role)}
            /\ nextUserId' = nextUserId + 1
            /\ signedUp' = signedUp \cup {[id |-> nextUserId, email |-> body.email,
                                           password |-> body.password, role |-> body.role]}
            /\ res' = Response("POST /auth/signup", 201, Text("User registered successfully"))
       ELSE /\ res' = Response("POST /auth/signup", 400, Text("Duplicate entry"))
            /\ UNCHANGED <<users, nextUserId, signedUp>>
    /\ UNCHANGED <<sessions, emargement, nextSessionId, nextEmargId, now, tokens, posted>>

\* the second half of a signup in flight
SignupInsert(p) ==
    /\ p \in pending
    /\ pending' = pending \ {p}
    /\ InsertUser(p.body, p.hashedPassword)

\* a signup that no other request overlaps: both halves in one step
Signup(body) ==
    /\ pending = {}
    /\ IF ~userSchemaOk(body)
       THEN /\ res' = Response("POST /auth/signup", 400, Text("ZodError"))
            /\ req' = NoRequest
            /\ UNCHANGED <<store, counters, now, tokens, signedUp, posted>>
       ELSE InsertUser(body, bcryptHash(body.password, SaltRounds))
    /\ UNCHANGED pending

\* ------------------------------------------------------------------ POST /auth/login
loginResponse(rows, body, t) ==
    LET found == {u \in rows : u.email = body.email} IN
    IF found = {}
    THEN Response("POST /auth/login", 401, Text("Invalid email or password"))
    ELSE LET user == CHOOSE u \in found : TRUE IN
         IF bcryptThrows(body.password)
         THEN Response("POST /auth/login", 500, Text("data and hash arguments required"))
         ELSE IF ~bcryptCompare(body.password, user.password)
         THEN Response("POST /auth/login", 401, Text("Invalid email or password"))
         ELSE Response("POST /auth/login", 200,
                       TokenBody(jwtSign([id |-> user.id, role |-> user.role], JWT_SECRET, t)))

\* the client keeps the token; it forgets an older one when it holds MaxTokens
Login(body) ==
    LET r == loginResponse(users, body, now) IN
    /\ req' = NoRequest
    /\ res' = r
    /\ IF r.status = 200
       THEN \E kept \in SUBSET tokens :
                /\ Cardinality(kept \cup {r.body.token}) <= MaxTokens
                /\ Cardinality(kept) >= Cardinality(tokens) - 1
                /\ tokens' = kept \cup {r.body.token}
       ELSE UNCHANGED tokens
    /\ UNCHANGED <<store, counters, now, pending, signedUp, posted>>

\* ------------------------------------------------------------------ POST /sessions
PostSessions(header, body) ==
    LET route == "POST /sessions"
        g == authenticateJWT(header) IN
    IF ~g.ok THEN Rejected(route, header, NoUser, g.status, g.body)
    ELSE IF ~RoleAllowed(g.user, "formateur")
    THEN Rejected(route, header, g.user, 403, Text("Access Denied"))
    ELSE /\ req' = Request(ExtractToken(header), g.user, 0, body.title, body.date, Undefined)
         /\ IF /\ body.title # Undefined
               /\ DateAccepted(body.date)
               /\ ForeignKey(users, g.user.id)
            THEN /\ nextSessionId <= MaxSessionId
                 /\ sessions' = sessions \cup
                        {SessionRow(nextSessionId, body.title, ToDate(body.date), g.user.id)}
                 /\ nextSessionId' = nextSessionId + 1
                 /\ posted' = posted \cup {[id |-> nextSessionId, title |-> body.title,
                                            date |-> body.date, caller |-> g.user.id]}
                 /\ res' = Response(route, 201, Text("Session created successfully"))
            ELSE /\ res' = Response(route, 400, Text("ER"))
                 /\ UNCHANGED <<sessions, nextSessionId, posted>>
         /\ UNCHANGED <<users, emargement, nextUserId, nextEmargId, now, tokens,
                        pending, signedUp>>

\* ------------------------------------------------------------------ GET /sessions
ListAlways200(rows) == Response("GET /sessions", 200, RowsBody(rows))

ListSessions(rows) ==
    IF Cardinality(rows) = 0
    THEN Response("GET /sessions", 404, Text("Session not found"))
    ELSE Response("GET /sessions", 200, RowsBody(rows))

GetSessions ==
    /\ req' = NoRequest
    /\ res' = ListSessions(sessions)
    /\ UNCHANGED <<store, counters, now, tokens, pending, signedUp, posted>>

\* ------------------------------------------------------------------ GET /sessions/:id
SelectById(rows, id) == {s \in rows : s.id = id}

sessionResponse(rows, id) ==
    IF Cardinality(SelectById(rows, id)) = 0
    THEN Response("GET /sessions/:id", 404, Text("Session not found"))
    ELSE Response("GET /sessions/:id", 200, RowBody(CHOOSE s \in SelectById(rows, id) : TRUE))

GetSession(id) ==
    /\ req' = Request(NoToken, NoUser, id, Undefined, NoDate, Undefined)
    /\ res' = sessionResponse(sessions, id)
    /\ UNCHANGED <<store, counters, now, tokens, pending, signedUp, posted>>

\* ------------------------------------------------------------------ PUT /sessions/:id
PutSession(header, id, body) ==
    LET route == "PUT /sessions/:id"
        g == authenticateJWT(header)
        rows == SelectById(sessions, id) IN
    IF ~g.ok THEN Rejected(route, header, NoUser, g.status, g.body)
    ELSE IF ~RoleAllowed(g.user, "formateur")
    THEN Rejected(route, header, g.user, 403, Text("Access Denied"))
    ELSE /\ req' = Request(ExtractToken(header), g.user, id, body.title, body.date, Undefined)
         /\ IF rows # {} /\ (body.title = Undefined \/ ~DateAccepted(body.date))
            THEN /\ res' = Response(route, 400, Text("ER"))
                 /\ UNCHANGED <<sessions, posted>>
            ELSE /\ sessions' = (sessions \ rows) \cup
                        {SessionRow(s.id, body.title, ToDate(body.date), s.formateur_id) :
                            s \in rows}
                 /\ posted' = {c \in posted : c.id # id}
                 /\ res' = Response(route, 200, Text("Session updated successfully"))
         /\ UNCHANGED <<users, emargement, counters, now, tokens, pending, signedUp>>

\* ------------------------------------------------------------------ DELETE /sessions/:id
DeleteSession(header, id) ==
    LET route == "DELETE /sessions/:id"
        g == authenticateJWT(header)
        rows == SelectById(sessions, id) IN
    IF ~g.ok THEN Rejected(route, header, NoUser, g.status, g.body)
    ELSE IF ~RoleAllowed(g.user, "formateur")
    THEN Rejected(route, header, g.user, 403, Text("Access Denied"))
    ELSE /\ req' = Request(ExtractToken(header), g.user, id, Undefined, NoDate, Undefined)
         /\ sessions' = sessions \ rows
         /\ emargement' = CascadeSessions(emargement, rows)
         /\ posted' = {c \in posted : c.id # id}
         /\ res' = Response(route, 200, Text("Session deleted successfully"))
         /\ UNCHANGED <<users, counters, now, tokens, pending, signedUp>>

\* ------------------------------------------------------------------ POST /sessions/:id/emargement
\* the rows of emargement after INSERT INTO emargement (session_id, etudiant_id, status)
UpsertEmargement(rows, id, session_id, etudiant_id, status) ==
    {e \in rows : e.session_id # session_id \/ e.etudiant_id # etudiant_id}
        \cup {EmargementRow(id, session_id, etudiant_id, ToTinyInt(status))}

InsertEmargement(rows, id, session_id, etudiant_id, status) ==
    rows \cup {EmargementRow(id, session_id, etudiant_id, ToTinyInt(status))}

PostEmargement(header, id, status) ==
    LET route == "POST /sessions/:id/emargement"
        g == authenticateJWT(header) IN
    IF ~g.ok THEN Rejected(route, header, NoUser, g.status, g.body)
    ELSE IF ~RoleAllowed(g.user, "etudiant")
    THEN Rejected(route, header, g.user, 403, Text("Access Denied"))
    ELSE /\ req' = Request(ExtractToken(header), g.user, id, Undefined, NoDate, status)
         /\ IF /\ status # Undefined
               /\ ForeignKey(sessions, id)
               /\ ForeignKey(users, g.user.id)
            THEN /\ nextEmargId <= MaxEmargId
                 /\ emargement' = InsertEmargement(emargement, nextEmargId, id,
                                                   g.user.id, status)
                 /\ nextEmargId' = nextEmargId + 1
                 /\ res' = Response(route, 201, Text("Attendance marked successfully"))
            ELSE /\ res' = Response(route, 400, Text("ER"))
                 /\ UNCHANGED <<emargement, nextEmargId>>
         /\ UNCHANGED <<users, sessions, nextUserId, nextSessionId, now, tokens,
                        pending, signedUp, posted>>

\* ------------------------------------------------------------------ GET /sessions/:id/emargement
SelectEmargement(rows, id) == {e \in rows : e.session_id = id}

GetEmargement(header, id) ==
    LET route == "GET /sessions/:id/emargement"
        g == authenticateJWT(header) IN
    IF ~g.ok THEN Rejected(route, header, NoUser, g.status, g.body)
    ELSE IF ~RoleAllowed(g.user, "formateur")
    THEN Rejected(route, header, g.user, 403, Text("Access Denied"))
    ELSE /\ req' = Request(ExtractToken(header), g.user, id, Undefined, NoDate, Undefined)
         /\ res' = Response(route, 200, RecordsBody(SelectEmargement(emargement, id)))
         /\ UNCHANGED <<store, counters, now, tokens, pending, signedUp, posted>>

\* ------------------------------------------------------------------ environment
\* time passes
Tick ==
    /\ now < MaxTime
    /\ now' = now + 1
    /\ UNCHANGED <<store, counters, tokens, pending, signedUp, posted, req, res>>

\* DELETE FROM users WHERE id = ..., run by an administrator on the database
\* (no route deletes a user); the foreign keys cascade
DeleteUser(id) ==
    LET gone == OwnedSessions(sessions, id) IN
    /\ \E u \in users : u.id = id
    /\ users' = {u \in users : u.id # id}
    /\ sessions' = sessions \ gone
    /\ emargement' = CascadeUser(CascadeSessions(emargement, gone), id)
    /\ posted' = {c \in posted : c.id \notin {s.id : s \in gone}}
    /\ req' = Request(NoToken, NoUser, id, Undefined, NoDate, Undefined)
    /\ res' = Response("DELETE FROM users", 0, Text(""))
    /\ UNCHANGED <<counters, now, tokens, pending, signedUp>>

\* ------------------------------------------------------------------ specifications
\* a handler reads req.params and req.body after the guard and the role test:
\* for a request they stop, one id and one body stand for all
IdsRead(header, role) == IF Passes(header, role) THEN Ids ELSE {1}

SessionBodiesRead(header, role) ==
    IF Passes(header, role) THEN SessionBodies ELSE {NoSessionBody}

StatusesRead(header, role) == IF Passes(header, role) THEN Statuses ELSE {Undefined}

Resources ==
    \/ \E h \in Headers : \E body \in SessionBodiesRead(h, "formateur") : PostSessions(h, body)
    \/ GetSessions
    \/ \E id \in Ids : GetSession(id)
    \/ \E h \in Headers : \E id \in IdsRead(h, "formateur") :
            \E body \in SessionBodiesRead(h, "formateur") : PutSession(h, id, body)
    \/ \E h \in Headers : \E id \in IdsRead(h, "formateur") : DeleteSession(h, id)
    \/ \E h \in Headers : \E id \in IdsRead(h, "etudiant") :
            \E status \in StatusesRead(h, "etudiant") : PostEmargement(h, id, status)
    \/ \E h \in Headers : \E id \in IdsRead(h, "formateur") : GetEmargement(h, id)

\* the service, its requests served one after the other
Next ==
    \/ \E body \in SignupBodies : Signup(body)
    \/ \E body \in LoginBodies : Login(body)
    \/ Resources
    \/ Tick

Spec == Init /\ [][Next]_vars

\* the authentication routes, with signups that overlap
NextAuth ==
    \/ \E body \in SignupBodies : SignupParse(body)
    \/ \E p \in pending : SignupInsert(p)
    \/ \E body \in LoginBodies : Login(body)
    \/ Tick

SpecAuth == Init /\ [][NextAuth]_vars

\* the service and an administrator who deletes user rows
NextAdmin ==
    \/ \E body \in SignupBodies : Signup(body)
    \/ \E body \in LoginBodies : Login(body)
    \/ Resources
    \/ \E id \in 1..MaxUserId : DeleteUser(id)

SpecAdmin == Init /\ [][NextAdmin]_vars

\* ------------------------------------------------------------------ properties
ProtectedRoutes ==
    {"POST /sessions", "PUT /sessions/:id", "DELETE /sessions/:id",
     "POST /sessions/:id/emargement", "GET /sessions/:id/emargement"}

RequiredRole(route) ==
    IF route = "POST /sessions/:id/emargement" THEN "etudiant" ELSE "formateur"

\* the step answers a request (the other steps leave req and res alone)
Answered == now' = now /\ pending' = pending

\* a token login issued less than one hour ago
Fresh(token) == token \in tokens /\ now - token.iat < ExpiresIn

\* no token, a malformed one, one signed with another key, or one issued more
\* than one hour ago
Unacceptable(token) ==
    \/ token.kind = Undefined
    \/ token.kind = "garbage"
    \/ token.kind = "jwt" /\ token.key # JWT_SECRET
    \/ token.kind = "jwt" /\ now - token.iat > ExpiresIn

UserIds == {u.id : u \in users}
SessionIds == {x.id : x \in sessions}

\* C1: on a role-gated route a valid token of the wrong role is answered 403 and
\* the three tables stay as they are; a valid student token on the student-only
\* route for an existing session is answered 201 and a record is inserted.
C1_RoleGating ==
    [][(Answered /\ res'.route \in ProtectedRoutes /\ Fresh(req'.token)) =>
         IF req'.token.role # RequiredRole(res'.route)
         THEN res'.status = 403 /\ store' = store
         ELSE (res'.route = "POST /sessions/:id/emargement" /\ req'.id \in SessionIds) =>
                 /\ res'.status = 201
                 /\ Cardinality(emargement') = Cardinality(emargement) + 1]_vars

\* C1, for the requests whose body carries a status: the same statement
C1_RoleGatingWithStatus ==
    [][(Answered /\ res'.route \in ProtectedRoutes /\ Fresh(req'.token)) =>
         IF req'.token.role # RequiredRole(res'.route)
         THEN res'.status = 403 /\ store' = store
         ELSE (/\ res'.route = "POST /sessions/:id/emargement"
               /\ req'.id \in SessionIds
               /\ req'.status # Undefined) =>
                 /\ res'.status = 201
                 /\ Cardinality(emargement') = Cardinality(emargement) + 1]_vars

\* C2: on a protected route, no token, a malformed or wrongly signed token, or a
\* token older than one hour is answered 403, the handler reads nothing of the
\* request and the tables stay as they are; a token less than one hour old is
\* accepted, and the handler's req.user is the id and role login put into it,
\* which are those of a signed-up user.
C2_AccessGuard ==
    [][(Answered /\ res'.route \in ProtectedRoutes) =>
         /\ Unacceptable(req'.token) =>
                /\ res'.status = 403
                /\ req'.user = NoUser /\ req'.id = 0
                /\ req'.title = Undefined /\ req'.status = Undefined
                /\ store' = store
         /\ Fresh(req'.token) =>
                /\ req'.user = [id |-> req'.token.id, role |-> req'.token.role]
                /\ \E u \in signedUp : u.id = req'.user.id /\ u.role = req'.user.role
                /\ req'.user.role = RequiredRole(res'.route) => res'.status # 403]_vars

\* a token more than one hour old was turned away
C2_Witness ==
    /\ res.route \in ProtectedRoutes
    /\ res.status = 403
    /\ req.token \in tokens
    /\ now - req.token.iat > ExpiresIn

\* C3: once a valid signup was answered 201, a login with its email and password
\* is answered 200 with a token of that user's id and role, and a login with its
\* email and another password is answered 401 without a token.
C3_SignupThenLogin ==
    \A u \in signedUp :
        /\ LET r == loginResponse(users, LoginBody(u.email, u.password), now) IN
            /\ r.status = 200
            /\ r.body.token.kind = "jwt" /\ r.body.token.key = JWT_SECRET
            /\ r.body.token.id = u.id /\ r.body.token.role = u.role
        /\ \A pw \in LoginPasswords \ {u.password, PwUndefined} :
            LET r == loginResponse(users, LoginBody(u.email, pw), now) IN
            r.status = 401 /\ r.body = Text("Invalid email or password")

\* a login of a signed-up user was answered with a token
C3_Witness ==
    /\ res.route = "POST /auth/login"
    /\ res.status = 200
    /\ \E u \in signedUp : res.body.token.id = u.id /\ res.body.token.role = u.role
    /\ res.body.token \in tokens

NoSharedEmail(rows) == \A u1, u2 \in rows : u1.email = u2.email => u1 = u2

\* C4: a signup whose email a stored user has is answered 4xx and leaves users
\* as it is, and no two rows of users ever share an email, signups overlapping
\* or not.
C4_EmailUnique ==
    [][/\ NoSharedEmail(users')
       /\ \A p \in pending :
            (SignupInsert(p) /\ \E u \in users : u.email = p.body.email) =>
                /\ res'.status \in 400..499
                /\ users' = users]_vars

\* a signup was answered 201 while another signup of the same email is in flight
C4_Witness ==
    /\ res.route = "POST /auth/signup"
    /\ res.status = 201
    /\ \E p \in pending : \E u \in users : u.email = p.body.email

\* C5: whatever the body, a login whose email no user has and a login whose
\* email a user has, with a password that user did not sign up with, get the
\* same status and body.
C5_LoginFailuresAlike ==
    \A pw \in LoginPasswords : \A e1, e2 \in LoginMails :
        (/\ \A u \in users : u.email # e1
         /\ \E u \in signedUp : u.email = e2 /\ u.password # pw) =>
            /\ loginResponse(users, LoginBody(e1, pw), now).status = 401
            /\ loginResponse(users, LoginBody(e2, pw), now)
                   = loginResponse(users, LoginBody(e1, pw), now)

RefIntegrity ==
    /\ \A x \in sessions : x.formateur_id \in UserIds
    /\ \A e \in emargement : e.session_id \in SessionIds /\ e.etudiant_id \in UserIds

\* C7: every reference of sessions and emargement resolves; deleting a session
\* removes its attendance records; deleting a user removes the sessions and the
\* attendance records of that user; an insert that refers to a missing row is
\* answered 400 and changes nothing.
C7_ReferentialIntegrity ==
    [][/\ RefIntegrity'
       /\ (res'.route = "DELETE /sessions/:id" /\ res'.status = 200) =>
            /\ \A x \in sessions' : x.id # req'.id
            /\ \A e \in emargement' : e.session_id # req'.id
            /\ users' = users
       /\ res'.route = "DELETE FROM users" =>
            /\ \A u \in users' : u.id # req'.id
            /\ \A x \in sessions' : x.formateur_id # req'.id
            /\ \A e \in emargement' : e.etudiant_id # req'.id
       /\ (/\ res'.route = "POST /sessions/:id/emargement"
           /\ req'.user.role = "etudiant"
           /\ (req'.id \notin SessionIds \/ req'.user.id \notin UserIds)) =>
            res'.status = 400 /\ store' = store
       /\ (/\ res'.route = "POST /sessions"
           /\ req'.user.role = "formateur"
           /\ req'.user.id \notin UserIds) =>
            res'.status = 400 /\ store' = store]_vars

\* the token of a deleted student was used on an existing session
C7_Witness ==
    /\ res.route = "POST /sessions/:id/emargement"
    /\ res.status = 400
    /\ req.status # Undefined
    /\ req.id \in SessionIds
    /\ req.user.id \notin UserIds

\* C8: a POST /sessions/:id/emargement answered 201 adds one row, of the :id
\* session, the caller's id and the given status, and leaves the other rows as
\* they are.
C8_OneRowPerCall ==
    [][(Answered /\ res'.route = "POST /sessions/:id/emargement" /\ res'.status = 201) =>
         \E e \in emargement' :
            /\ e \notin emargement
            /\ emargement' = emargement \cup {e}
            /\ Cardinality(emargement') = Cardinality(emargement) + 1
            /\ e.session_id = req'.id
            /\ e.etudiant_id = req'.token.id
            /\ e.status = (IF req'.status = "true" THEN 1 ELSE 0)
            /\ users' = users /\ sessions' = sessions]_vars

\* two calls of one student on one session have left two rows
C8_Witness ==
    /\ res.route = "POST /sessions/:id/emargement"
    /\ res.status = 201
    /\ \E e1, e2 \in emargement :
        /\ e1.id # e2.id
        /\ e1.session_id = e2.session_id
        /\ e1.etudiant_id = e2.etudiant_id

\* C9: GET /sessions is answered 404 exactly when sessions is empty and else 200
\* with all its rows; GET /sessions/:id/emargement of a trainer is answered 200
\* with the records of that session, none included; neither changes a table.
C9_Listings ==
    [][/\ (Answered /\ res'.route = "GET /sessions") =>
            /\ res'.status = 404 <=> sessions = {}
            /\ sessions # {} => res'.status = 200 /\ res'.body.rows = sessions
            /\ store' = store
       /\ (Answered /\ res'.route = "GET /sessions/:id/emargement" /\ Fresh(req'.token)
                    /\ req'.token.role = "formateur") =>
            /\ res'.status = 200
            /\ res'.body.records = {e \in emargement : e.session_id = req'.id}
            /\ store' = store]_vars

\* a trainer was given the empty list of an existing session
C9_Witness ==
    /\ res.route = "GET /sessions/:id/emargement"
    /\ res.status = 200
    /\ res.body.records = {}
    /\ req.id \in SessionIds

\* C10: the formateur_id of every row of sessions is the id of a stored user
\* whose role is formateur.
C10_TrainerReference ==
    \A x \in sessions : \E u \in users : u.id = x.formateur_id /\ u.role = "formateur"

\* a session exists, and a student with a valid token was refused its update
C10_Witness ==
    /\ sessions # {}
    /\ res.route = "PUT /sessions/:id"
    /\ res.status = 403
    /\ req.user.role = "etudiant"

====
